---- MODULE Spec2Model ----
(***************************************************************************)
(* Model of the duplicate file deleter (mhjd/duplication_deleter):         *)
(*   src/src/duplicate_detector.py  DuplicateDetector                      *)
(*   src/src/main_ui.py             DuplicateFileDeleterApp                *)
(*                                                                         *)
(* A file name is a sequence of characters, a path a sequence of names.    *)
(* A Python dict is a sequence of [key, files] entries in insertion order. *)
(* A percentage is the fraction <<numerator, denominator>>.                *)
(***************************************************************************)
EXTENDS Integers, Sequences, FiniteSets, TLC

\* ------------------------------------------------------------------ bounds
\* File contents are the byte strings of length <= 1 over 1..MaxByte.
MaxByte == 2
\* The searches the user may start (clicks on "Search for Duplicates").
MaxSearches == 2
\* The entries FileManager.errors may hold before it is cleared.
MaxErrors == 3

\* ------------------------------------------------------------ the file tree
NameA == <<"a">>
NameB == <<"b">>
NameH == <<".", "h">>
NameSub == <<"s", "u", "b">>
NameC == <<"c">>
NameL == <<"l">>
NameGit == <<".", "g", "i", "t">>
NameD == <<"d">>

Root == << <<"r">> >>
DirSub == Append(Root, NameSub)
DirGit == Append(Root, NameGit)

\* os.path.join(root, filename)
Join(dir, name) == Append(dir, name)

PathA == Join(Root, NameA)
PathB == Join(Root, NameB)
PathH == Join(Root, NameH)
PathC == Join(DirSub, NameC)
PathL == Join(DirSub, NameL)
PathD == Join(DirGit, NameD)

Slots == {PathA, PathB, PathH, PathC, PathL, PathD}

\* The directories in the order os.walk visits them, and each one's listing.
DirOrder == <<Root, DirSub, DirGit>>
Listing(dir) ==
  IF dir = Root THEN <<NameA, NameB, NameH>>
  ELSE IF dir = DirSub THEN <<NameC, NameL>>
  ELSE <<NameD>>

Bytes == 1..MaxByte
Contents == {<< >>} \cup {<<b>> : b \in Bytes}

Absent == [kind |-> "absent"]
\* A regular file; acc tells which access fails: "ok" none, "nosize" the size
\* query (the file went away after it was listed), "noread" the open/read.
File(c, acc) == [kind |-> "file", content |-> c, acc |-> acc]
\* A symbolic link to a regular file.
Link(target) == [kind |-> "link", target |-> target]
\* An entry that is no regular file (a broken link, a fifo).
Special == [kind |-> "special"]

SlotOptions(p) ==
  IF p = PathA THEN {File(<< >>, "ok"), File(<<1>>, "ok")}
  ELSE IF p = PathB THEN {Absent, File(<<1>>, "nosize"), File(<<1>>, "noread")}
                           \cup {File(c, "ok") : c \in Contents}
  ELSE IF p = PathC THEN {Absent} \cup {File(c, "ok") : c \in Contents}
  ELSE IF p = PathL THEN {Absent, Link(PathA), Special}
  ELSE {Absent, File(<<1>>, "ok")}

Trees == {t \in [Slots -> UNION {SlotOptions(p) : p \in Slots}] :
            \A p \in Slots : t[p] \in SlotOptions(p)}

\* The threads that run find_duplicates: the model follows two of them at a
\* time, and a thread that has exited lends its place to the next one.
Threads == {1, 2}

VARIABLES
  rootKind,           \* what the root path is: "dir", "file" or "missing"
  tree,               \* the entries below the root
  stop_search,        \* DuplicateDetector.stop_search
  progress_callback,  \* DuplicateDetector.progress_callback
  th,                 \* per thread: the frame of find_duplicates it runs
  reports,            \* what the recording callback received in this scan
  prev,               \* the outcome of the caller's previous scan
  app,                \* the fields and widgets of DuplicateFileDeleterApp
  after,              \* Tk's queue of root.after(0, ...) callbacks
  launched            \* the number of worker threads started so far

vars == <<rootKind, tree, stop_search, progress_callback, th, reports, prev,
          app, after, launched>>

\* ------------------------------------------------------- the file system
Present(p) == p \in Slots /\ tree[p].kind # "absent"

\* Path.resolve(): a link resolves to its target, any other path to itself.
normalize_path(p) ==
  IF p \in Slots /\ tree[p].kind = "link" THEN tree[p].target ELSE p

\* os.path.basename
basename(p) == p[Len(p)]

\* str.startswith('.')
StartsWithDot(name) == Len(name) > 0 /\ name[1] = "."

\* A faulty is_hidden_file that tests the whole path, not its base name.
is_hidden_file_of_path(p) == StartsWithDot(p[1])

\* DuplicateDetector.is_hidden_file
is_hidden_file(p) == StartsWithDot(basename(p))

\* os.path.isfile
isfile(p) == p \in Slots /\ tree[p].kind = "file"

\* hashlib.md5(...).hexdigest(): a collision-free digest of the content.
MD5(c) == <<"md5", c>>

\* Python's None, as get_file_size and calculate_md5 return it on an error.
NoSize == -1
NoHash == << >>

\* A faulty get_file_size whose caller takes the size 0 for "no size".
get_file_size_zero_as_none(p) ==
  LET n == normalize_path(p) IN
  IF isfile(n) /\ tree[n].acc # "nosize" /\ Len(tree[n].content) > 0
  THEN Len(tree[n].content) ELSE NoSize

\* DuplicateDetector.get_file_size
get_file_size(p) ==
  LET n == normalize_path(p) IN
  IF isfile(n) /\ tree[n].acc # "nosize" THEN Len(tree[n].content) ELSE NoSize

\* A faulty calculate_md5 whose read loop feeds nothing to the digest.
calculate_md5_unread(p) ==
  LET n == normalize_path(p) IN
  IF isfile(n) /\ tree[n].acc = "ok" THEN MD5(<< >>) ELSE NoHash

\* A faulty calculate_md5 that yields a digest for a file it could not read.
calculate_md5_ignoring_errors(p) ==
  LET n == normalize_path(p) IN
  IF isfile(n) THEN MD5(tree[n].content) ELSE NoHash

\* DuplicateDetector.calculate_md5
calculate_md5(p) ==
  LET n == normalize_path(p) IN
  IF isfile(n) /\ tree[n].acc = "ok" THEN MD5(tree[n].content) ELSE NoHash

Filenames(dir) == SelectSeq(Listing(dir), LAMBDA n : Present(Join(dir, n)))

DirExists(dir) == dir = Root \/ Filenames(dir) # << >>

\* os.walk(root): nothing when the root is no directory; otherwise every
\* directory below it, hidden ones too, each with the names of its files.
Walk ==
  IF rootKind # "dir" THEN << >>
  ELSE LET ds == SelectSeq(DirOrder, DirExists) IN
       [k \in 1..Len(ds) |-> [root |-> ds[k], filenames |-> Filenames(ds[k])]]

\* ------------------------------------------------------------ dictionaries
HasKey(d, k) == \E j \in 1..Len(d) : d[j].key = k

\* A faulty insertion that puts the new file first in its list.
DictAppend_prepending(d, k, v) ==
  IF HasKey(d, k)
  THEN [j \in 1..Len(d) |->
          IF d[j].key = k THEN [d[j] EXCEPT !.files = <<v>> \o @] ELSE d[j]]
  ELSE Append(d, [key |-> k, files |-> <<v>>])

\* d.setdefault(k, []).append(v), as lines 173-175 and 211-213 do it
DictAppend(d, k, v) ==
  IF HasKey(d, k)
  THEN [j \in 1..Len(d) |->
          IF d[j].key = k THEN [d[j] EXCEPT !.files = Append(@, v)] ELSE d[j]]
  ELSE Append(d, [key |-> k, files |-> <<v>>])

\* A faulty filter that asks for more than two files.
OnlyMoreThanTwo(d) == SelectSeq(d, LAMBDA e : Len(e.files) > 2)

\* A faulty filter that keeps the lists of a single file.
OnlyNonEmpty(d) == SelectSeq(d, LAMBDA e : Len(e.files) > 0)

\* {k: files for k, files in d.items() if len(files) > 1}
OnlyMultiple(d) == SelectSeq(d, LAMBDA e : Len(e.files) > 1)

RECURSIVE SumLen(_)
SumLen(d) == IF d = << >> THEN 0 ELSE Len(Head(d).files) + SumLen(Tail(d))

Range(s) == {s[j] : j \in 1..Len(s)}

\* ------------------------------------------------------------- the threads
IdleFrame ==
  [pc |-> "idle", files |-> << >>, total_dirs |-> 0, processed_dirs |-> 0,
   di |-> 0, fi |-> 0, size_groups |-> << >>, i |-> 0, total_files |-> 0,
   bi |-> 0, fj |-> 0, processed_files |-> 0, duplicates |-> << >>,
   ret |-> << >>, outcome |-> "none", stopAt |-> "none", hashed |-> << >>]

\* The stage of find_duplicates a frame is in.
Stage(pc) ==
  CASE pc \in {"walk", "walkFiles", "afterWalk"} -> "walk"
    [] pc \in {"size", "afterSize"} -> "size"
    [] pc \in {"hash", "hashFiles"} -> "hash"
    [] OTHER -> pc

\* progress_callback(progress, message) with the recording callback
Record(pct, stage) ==
  reports' = Append(reports, [pct |-> pct, stage |-> stage])

\* DuplicateFileDeleterApp.update_progress, run by thread `by` (0 is the
\* main thread); progress_text is kept as its last line.
update_progress(a, by, pct, message) ==
  [a EXCEPT !.progress_bar = pct, !.progress_text = message, !.progress_by = by]

\* self.progress_callback(progress, message), called by thread w
Callback(w, pct, stage) ==
  IF progress_callback = "update_progress"
  THEN /\ app' = update_progress(app, w, pct, stage)
       /\ UNCHANGED reports
  ELSE /\ Record(pct, stage)
       /\ UNCHANGED app

Frame(w, f) == th' = [th EXCEPT ![w] = f]

\* A faulty enumeration percentage that divides by the directories left.
WalkProgress_by_remaining(processed_dirs, total_dirs) ==
  <<processed_dirs * 30, total_dirs - processed_dirs>>

\* (processed_dirs / total_dirs) * 30, line 125
WalkProgress(processed_dirs, total_dirs) == <<processed_dirs * 30, total_dirs>>

\* A faulty size-stage percentage that lacks the 30 of the stage before.
SizeProgress_unshifted(i, total_files) == <<i * 30, total_files>>

\* 30 + (i / total_files) * 30, line 168
SizeProgress(i, total_files) == <<30 * total_files + i * 30, total_files>>

\* A faulty hashing percentage that scales its share by 60 instead of 40.
HashProgress_overshooting(processed_files, total_files) ==
  <<60 * total_files + processed_files * 60, total_files>>

\* 60 + (processed_files / total_files) * 40, line 206
HashProgress(processed_files, total_files) ==
  <<60 * total_files + processed_files * 40, total_files>>

\* The frame once the walk leaves directory f.di: the next directory, or the
\* end of the loop at line 117.
NextDir(f) ==
  [f EXCEPT !.di = f.di + 1, !.fi = 0,
            !.pc = IF f.di + 1 > Len(Walk) THEN "afterWalk" ELSE "walk"]

\* The frame once the hashing leaves bucket f.bi (line 194).
NextBucket(f) ==
  [f EXCEPT !.bi = f.bi + 1, !.fj = 0,
            !.pc = IF f.bi + 1 > Len(f.size_groups) THEN "afterHash" ELSE "hash"]

\* A faulty start of find_duplicates that leaves stop_search as it finds it.
FD_Begin_keeping_flag(w) ==
  /\ th[w].pc = "call"
  /\ Callback(w, <<0, 1>>, "start")
  /\ Frame(w, [th[w] EXCEPT !.files = << >>, !.total_dirs = Len(Walk),
                            !.processed_dirs = 0, !.di = 1,
                            !.pc = IF Len(Walk) = 0 THEN "afterWalk" ELSE "walk"])
  /\ UNCHANGED <<rootKind, tree, stop_search, progress_callback, prev, after,
                 launched>>

\* find_duplicates, lines 228-231, and get_all_files up to its second walk
\* (lines 106-115).
FD_Begin(w) ==
  /\ th[w].pc = "call"
  /\ stop_search' = FALSE
  /\ Callback(w, <<0, 1>>, "start")
  /\ Frame(w, [th[w] EXCEPT !.files = << >>, !.total_dirs = Len(Walk),
                            !.processed_dirs = 0, !.di = 1,
                            !.pc = IF Len(Walk) = 0 THEN "afterWalk" ELSE "walk"])
  /\ UNCHANGED <<rootKind, tree, progress_callback, prev, after, launched>>

\* A faulty loop over the directories that waits when it finds stop_search
\* set, where the code leaves the loop.
GAF_Dir_spinning(w) ==
  LET f == th[w] IN
  /\ f.pc = "walk"
  /\ IF stop_search
     THEN /\ Frame(w, f)
          /\ UNCHANGED <<reports, app>>
     ELSE LET g == [f EXCEPT !.processed_dirs = f.processed_dirs + 1] IN
          /\ Callback(w, WalkProgress(g.processed_dirs, g.total_dirs), "walk")
          /\ Frame(w, IF Walk[f.di].filenames = << >> THEN NextDir(g)
                      ELSE [g EXCEPT !.pc = "walkFiles", !.fi = 1])
  /\ UNCHANGED <<rootKind, tree, stop_search, progress_callback, prev, after, launched>>

\* get_all_files, one directory of the walk (lines 117-126).
GAF_Dir(w) ==
  LET f == th[w] IN
  /\ f.pc = "walk"
  /\ IF stop_search
     THEN /\ Frame(w, [f EXCEPT !.pc = "afterWalk"])
          /\ UNCHANGED <<reports, app>>
     ELSE LET g == [f EXCEPT !.processed_dirs = f.processed_dirs + 1] IN
          /\ Callback(w, WalkProgress(g.processed_dirs, g.total_dirs), "walk")
          /\ Frame(w, IF Walk[f.di].filenames = << >> THEN NextDir(g)
                      ELSE [g EXCEPT !.pc = "walkFiles", !.fi = 1])
  /\ UNCHANGED <<rootKind, tree, stop_search, progress_callback, prev, after, launched>>

\* A faulty loop over the file names that lacks the check of stop_search.
GAF_File_unchecked(w) ==
  LET f == th[w]
      d == Walk[f.di]
      file_path == Join(d.root, d.filenames[f.fi])
      normalized_file_path == normalize_path(file_path)
      g == IF is_hidden_file(normalized_file_path) \/ ~isfile(normalized_file_path)
           THEN f
           ELSE [f EXCEPT !.files = Append(@, normalized_file_path)] IN
  /\ f.pc = "walkFiles"
  /\ Frame(w, IF f.fi = Len(d.filenames) THEN NextDir(g)
              ELSE [g EXCEPT !.fi = f.fi + 1])
  /\ UNCHANGED <<rootKind, tree, stop_search, progress_callback, reports, prev, app, after, launched>>

\* get_all_files, one file name of a directory (lines 128-145).
GAF_File(w) ==
  LET f == th[w] IN
  /\ f.pc = "walkFiles"
  /\ IF stop_search
     THEN Frame(w, NextDir(f))
     ELSE LET d == Walk[f.di]
              file_path == Join(d.root, d.filenames[f.fi])
              normalized_file_path == normalize_path(file_path)
              g == IF is_hidden_file(normalized_file_path)
                      \/ ~isfile(normalized_file_path)
                   THEN f
                   ELSE [f EXCEPT !.files = Append(@, normalized_file_path)]
          IN Frame(w, IF f.fi = Len(d.filenames) THEN NextDir(g)
                      ELSE [g EXCEPT !.fi = f.fi + 1])
  /\ UNCHANGED <<rootKind, tree, stop_search, progress_callback, reports, prev, app, after, launched>>

\* find_duplicates, lines 236-240, and group_by_size up to its loop (159-160).
FD_AfterWalk(w) ==
  LET f == th[w] IN
  /\ f.pc = "afterWalk"
  /\ IF stop_search
     THEN Frame(w, [f EXCEPT !.pc = "done", !.ret = << >>, !.outcome = "stopped"])
     ELSE Frame(w, [f EXCEPT !.size_groups = << >>, !.total_files = Len(f.files),
                             !.i = 0,
                             !.pc = IF Len(f.files) = 0 THEN "afterSize" ELSE "size"])
  /\ UNCHANGED <<rootKind, tree, stop_search, progress_callback, reports, prev, app, after, launched>>

\* group_by_size, one file (lines 162-175), and its return (line 178).
GBS_File(w) ==
  LET f == th[w] IN
  /\ f.pc = "size"
  /\ IF stop_search
     THEN /\ Frame(w, [f EXCEPT !.size_groups = OnlyMultiple(@), !.pc = "afterSize"])
          /\ UNCHANGED <<reports, app>>
     ELSE LET file_path == f.files[f.i + 1]
              file_size == get_file_size(file_path)
              sg == IF file_size # NoSize
                    THEN DictAppend(f.size_groups, file_size, file_path)
                    ELSE f.size_groups
          IN /\ Callback(w, SizeProgress(f.i, f.total_files), "size")
             /\ Frame(w, IF f.i + 1 = f.total_files
                         THEN [f EXCEPT !.size_groups = OnlyMultiple(sg),
                                        !.i = f.i + 1, !.pc = "afterSize"]
                         ELSE [f EXCEPT !.size_groups = sg, !.i = f.i + 1])
  /\ UNCHANGED <<rootKind, tree, stop_search, progress_callback, prev, after, launched>>

\* A faulty step 2 of find_duplicates that lacks the check of stop_search.
FD_AfterSize_unchecked(w) ==
  LET f == th[w] IN
  /\ f.pc = "afterSize"
  /\ Frame(w, [f EXCEPT !.duplicates = << >>,
                        !.total_files = SumLen(f.size_groups),
                        !.processed_files = 0, !.bi = 1,
                        !.pc = IF f.size_groups = << >> THEN "afterHash"
                               ELSE "hash"])
  /\ UNCHANGED <<rootKind, tree, stop_search, progress_callback, reports, prev, app, after, launched>>

\* find_duplicates, lines 242-246, and find_duplicates_by_hash up to its
\* loop (lines 190-192).
FD_AfterSize(w) ==
  LET f == th[w] IN
  /\ f.pc = "afterSize"
  /\ IF stop_search
     THEN Frame(w, [f EXCEPT !.pc = "done", !.ret = << >>, !.outcome = "stopped"])
     ELSE Frame(w, [f EXCEPT !.duplicates = << >>,
                             !.total_files = SumLen(f.size_groups),
                             !.processed_files = 0, !.bi = 1,
                             !.pc = IF f.size_groups = << >> THEN "afterHash"
                                    ELSE "hash"])
  /\ UNCHANGED <<rootKind, tree, stop_search, progress_callback, reports, prev, app, after, launched>>

\* find_duplicates_by_hash, one size bucket (lines 194-196).
FDH_Bucket(w) ==
  LET f == th[w] IN
  /\ f.pc = "hash"
  /\ Frame(w, IF stop_search THEN [f EXCEPT !.pc = "afterHash"]
              ELSE [f EXCEPT !.pc = "hashFiles", !.fj = 1])
  /\ UNCHANGED <<rootKind, tree, stop_search, progress_callback, reports, prev, app, after, launched>>

\* A faulty hashing step whose calculate_md5 opens the file for writing and
\* so empties it.
FDH_File_truncating(w) ==
  LET f == th[w]
      bucket == f.size_groups[f.bi].files
      file_path == bucket[f.fj]
      file_hash == calculate_md5(file_path)
      g == [f EXCEPT !.processed_files = f.processed_files + 1,
                     !.hashed = Append(@, file_path),
                     !.duplicates =
                        IF file_hash # NoHash
                        THEN DictAppend(@, file_hash, file_path) ELSE @] IN
  /\ f.pc = "hashFiles"
  /\ ~stop_search
  /\ tree' = [tree EXCEPT ![file_path] = File(<< >>, "ok")]
  /\ Callback(w, HashProgress(g.processed_files, g.total_files), "hash")
  /\ Frame(w, IF f.fj = Len(bucket) THEN NextBucket(g)
              ELSE [g EXCEPT !.fj = f.fj + 1])
  /\ UNCHANGED <<rootKind, stop_search, progress_callback, prev, after, launched>>

\* find_duplicates_by_hash, one file of a size bucket (lines 198-213).
FDH_File(w) ==
  LET f == th[w] IN
  /\ f.pc = "hashFiles"
  /\ IF stop_search
     THEN /\ Frame(w, NextBucket(f))
          /\ UNCHANGED <<reports, app>>
     ELSE LET bucket == f.size_groups[f.bi].files
              file_path == bucket[f.fj]
              file_hash == calculate_md5(file_path)
              g == [f EXCEPT !.processed_files = f.processed_files + 1,
                             !.hashed = Append(@, file_path),
                             !.duplicates =
                                IF file_hash # NoHash
                                THEN DictAppend(@, file_hash, file_path) ELSE @]
          IN /\ Callback(w, HashProgress(g.processed_files, g.total_files), "hash")
             /\ Frame(w, IF f.fj = Len(bucket) THEN NextBucket(g)
                         ELSE [g EXCEPT !.fj = f.fj + 1])
  /\ UNCHANGED <<rootKind, tree, stop_search, progress_callback, prev, after, launched>>

\* A faulty end of the scan whose groups pile up on those of the scan before.
FD_Finish_accumulating(w) ==
  LET f == th[w]
      duplicates == prev.ret \o OnlyMultiple(f.duplicates) IN
  /\ f.pc = "afterHash"
  /\ Callback(w, <<100, 1>>, "found")
  /\ Frame(w, [f EXCEPT !.duplicates = duplicates, !.ret = duplicates,
                        !.pc = "done", !.outcome = "completed"])
  /\ UNCHANGED <<rootKind, tree, stop_search, progress_callback, prev, after, launched>>

\* find_duplicates_by_hash's return (line 216) and find_duplicates, lines
\* 248-251.
FD_Finish(w) ==
  LET f == th[w]
      duplicates == OnlyMultiple(f.duplicates) IN
  /\ f.pc = "afterHash"
  /\ Callback(w, <<100, 1>>, "found")
  /\ Frame(w, [f EXCEPT !.duplicates = duplicates, !.ret = duplicates,
                        !.pc = "done", !.outcome = "completed"])
  /\ UNCHANGED <<rootKind, tree, stop_search, progress_callback, prev, after, launched>>

\* One step of find_duplicates on thread w.
Scan(w) ==
  \/ FD_Begin(w)
  \/ GAF_Dir(w)
  \/ GAF_File(w)
  \/ FD_AfterWalk(w)
  \/ GBS_File(w)
  \/ FD_AfterSize(w)
  \/ FDH_Bucket(w)
  \/ FDH_File(w)
  \/ FD_Finish(w)

\* A faulty stop that flips the flag.
stop_toggling ==
  /\ stop_search' = ~stop_search
  /\ th' = [w \in Threads |->
              IF th[w].pc \notin {"idle", "done", "exited"} /\ th[w].stopAt = "none"
              THEN [th[w] EXCEPT !.stopAt = Stage(th[w].pc)] ELSE th[w]]

\* DuplicateDetector.stop. stopAt remembers the stage each running scan was
\* in when stop was first called during it.
stop ==
  /\ stop_search' = TRUE
  /\ th' = [w \in Threads |->
              IF th[w].pc \notin {"idle", "done", "exited"} /\ th[w].stopAt = "none"
              THEN [th[w] EXCEPT !.stopAt = Stage(th[w].pc)] ELSE th[w]]

\* DuplicateFileDeleterApp.__init__ and create_widgets: the fields and the
\* widgets' states. A button is TRUE when it is enabled; results_info,
\* progress_text and dialog hold the text last shown.
InitApp(folder) ==
  [selected_folder |-> folder, is_searching |-> FALSE, search_thread |-> 0,
   duplicates |-> << >>, duplicate_groups |-> << >>,
   file_selections |-> << >>, tree_items |-> << >>,
   search_button |-> TRUE, stop_button |-> FALSE, browse_button |-> TRUE,
   action_buttons |-> FALSE,
   results_info |-> <<"No duplicates found yet">>,
   progress_bar |-> <<0, 1>>, progress_text |-> "", progress_by |-> 0,
   dialog |-> "",
   file_manager |-> [deleted_files |-> << >>, errors |-> << >>],
   results |-> << >>]

\* --------------------------------------------- the detector used on its own
\* The caller's thread.
Caller == CHOOSE w \in Threads : \A v \in Threads : w <= v

\* The caller invokes find_duplicates(Root); prev keeps what the scan before
\* gave it.
Invoke ==
  /\ th[Caller].pc \in {"idle", "done"}
  /\ prev' = IF th[Caller].pc = "done"
             THEN [outcome |-> th[Caller].outcome, ret |-> th[Caller].ret,
                   stop_search |-> stop_search, stopAt |-> th[Caller].stopAt]
             ELSE prev
  /\ Frame(Caller, [IdleFrame EXCEPT !.pc = "call"])
  /\ reports' = << >>
  /\ UNCHANGED <<rootKind, tree, stop_search, progress_callback, app, after, launched>>

\* Another thread calls stop() at any moment.
Stop ==
  /\ stop
  /\ UNCHANGED <<rootKind, tree, progress_callback, reports, prev, app, after,
                 launched>>

NoTree == [p \in Slots |-> Absent]

NoPrev == [outcome |-> "none", ret |-> << >>, stop_search |-> FALSE,
           stopAt |-> "none"]

Init ==
  /\ rootKind \in {"dir", "file", "missing"}
  /\ tree \in IF rootKind = "dir" THEN Trees ELSE {NoTree}
  /\ stop_search = FALSE
  /\ progress_callback = "record"
  /\ th = [w \in Threads |-> IdleFrame]
  /\ reports = << >>
  /\ prev = NoPrev
  /\ app = InitApp(Root)
  /\ after = << >>
  /\ launched = 0

Next ==
  \/ Invoke
  \/ Scan(Caller)
  \/ Stop

Spec == Init /\ [][Next]_vars

\* The detector on a few trees, its thread scheduled as long as it has a
\* step to take: a running Python thread is never starved for ever.
LiveTrees ==
  {[NoTree EXCEPT ![PathA] = File(<<1>>, "ok"), ![PathB] = File(<<1>>, "ok")],
   [NoTree EXCEPT ![PathA] = File(<<1>>, "ok"), ![PathB] = File(<<2>>, "ok"),
                  ![PathC] = File(<<1>>, "ok")],
   [NoTree EXCEPT ![PathA] = File(<< >>, "ok"), ![PathL] = Link(PathA)],
   [NoTree EXCEPT ![PathA] = File(<< >>, "ok"), ![PathB] = File(<<1>>, "noread"),
                  ![PathH] = File(<<1>>, "ok"), ![PathC] = File(<< >>, "ok"),
                  ![PathL] = Special, ![PathD] = File(<<1>>, "ok")],
   [NoTree EXCEPT ![PathA] = File(<<1>>, "ok"), ![PathB] = File(<< >>, "ok")],
   NoTree}

InitLive ==
  /\ rootKind \in {"dir", "file", "missing"}
  /\ tree \in IF rootKind = "dir" THEN LiveTrees ELSE {NoTree}
  /\ stop_search = FALSE
  /\ progress_callback = "record"
  /\ th = [w \in Threads |-> IdleFrame]
  /\ reports = << >>
  /\ prev = NoPrev
  /\ app = InitApp(Root)
  /\ after = << >>
  /\ launched = 0

SpecLive == InitLive /\ [][Next]_vars /\ WF_vars(Scan(Caller))

\* ------------------------------------------------------ the file manager
\* FileManager._normalize_path, os.path.exists and os.path.isfile in the
\* tree t (move_files_to_trash changes the tree as it goes).
fm_normalize_path(t, p) ==
  IF p \in Slots /\ t[p].kind = "link" THEN t[p].target ELSE p

fm_exists(t, p) == p \in Slots /\ t[p].kind # "absent"

fm_isfile(t, p) == p \in Slots /\ t[p].kind = "file"

\* A faulty move_to_trash that notes the file as deleted before send2trash
\* has moved it.
move_to_trash_logging_early(fm, t, file_path, locked) ==
  LET normalized_path == fm_normalize_path(t, file_path) IN
  IF ~fm_exists(t, normalized_path)
  THEN [fm |-> [fm EXCEPT !.errors = Append(@, <<"File not found", normalized_path>>)],
        tree |-> t, ok |-> FALSE]
  ELSE IF ~fm_isfile(t, normalized_path)
  THEN [fm |-> [fm EXCEPT !.errors = Append(@, <<"Path is not a file", normalized_path>>)],
        tree |-> t, ok |-> FALSE]
  ELSE IF normalized_path \in locked
  THEN [fm |-> [fm EXCEPT !.deleted_files = Append(@, normalized_path),
                          !.errors = Append(@, <<"Permission denied", file_path>>)],
        tree |-> t, ok |-> FALSE]
  ELSE [fm |-> [fm EXCEPT !.deleted_files = Append(@, normalized_path)],
        tree |-> [t EXCEPT ![normalized_path] = Absent], ok |-> TRUE]

\* FileManager.move_to_trash on the manager fm and the tree t; send2trash
\* raises for the files in locked. Gives the manager, the tree and the
\* returned truth value.
move_to_trash(fm, t, file_path, locked) ==
  LET normalized_path == fm_normalize_path(t, file_path) IN
  IF ~fm_exists(t, normalized_path)
  THEN [fm |-> [fm EXCEPT !.errors = Append(@, <<"File not found", normalized_path>>)],
        tree |-> t, ok |-> FALSE]
  ELSE IF ~fm_isfile(t, normalized_path)
  THEN [fm |-> [fm EXCEPT !.errors = Append(@, <<"Path is not a file", normalized_path>>)],
        tree |-> t, ok |-> FALSE]
  ELSE IF normalized_path \in locked
  THEN [fm |-> [fm EXCEPT !.errors = Append(@, <<"Permission denied", file_path>>)],
        tree |-> t, ok |-> FALSE]
  ELSE [fm |-> [fm EXCEPT !.deleted_files = Append(@, normalized_path)],
        tree |-> [t EXCEPT ![normalized_path] = Absent], ok |-> TRUE]

\* results[file_path] = ok on a dict kept as a sequence of entries
ResultPut(results, file_path, ok) ==
  IF \E j \in 1..Len(results) : results[j].key = file_path
  THEN [j \in 1..Len(results) |->
          IF results[j].key = file_path THEN [results[j] EXCEPT !.ok = ok]
          ELSE results[j]]
  ELSE Append(results, [key |-> file_path, ok |-> ok])

RECURSIVE move_files_to_trash(_, _, _, _, _)
\* FileManager.move_files_to_trash: the loop over file_paths, results being
\* the dict built so far.
move_files_to_trash(fm, t, file_paths, locked, results) ==
  IF file_paths = << >> THEN [fm |-> fm, tree |-> t, results |-> results]
  ELSE LET r == move_to_trash(fm, t, Head(file_paths), locked) IN
       move_files_to_trash(r.fm, r.tree, Tail(file_paths), locked,
                           ResultPut(results, Head(file_paths), r.ok))

\* The file manager used on its own: the paths a caller passes, the files
\* send2trash may fail on, and the trees it works on.
FMPaths == {PathA, PathB, PathL}

PathLists ==
  {<< >>} \cup {<<p>> : p \in FMPaths} \cup {<<p, q>> : p, q \in FMPaths}

FMTrees ==
  {[NoTree EXCEPT ![PathA] = File(<<1>>, "ok"), ![PathB] = File(<<1>>, "ok")],
   [NoTree EXCEPT ![PathA] = File(<<1>>, "ok"), ![PathL] = Link(PathA)],
   [NoTree EXCEPT ![PathA] = File(<<1>>, "ok"), ![PathB] = Special,
                  ![PathL] = Link(PathA)]}

\* A caller calls move_files_to_trash(file_paths) and keeps what it returns.
FM_move_files_to_trash(file_paths, locked) ==
  LET r == move_files_to_trash(app.file_manager, tree, file_paths, locked, << >>) IN
  /\ Len(app.file_manager.errors) + Len(file_paths) <= MaxErrors
  /\ app' = [app EXCEPT !.file_manager = r.fm, !.results = r.results]
  /\ tree' = r.tree
  /\ UNCHANGED <<rootKind, stop_search, progress_callback, th, reports, prev,
                 after, launched>>

\* A caller calls move_to_trash(file_path).
FM_move_to_trash(file_path, locked) ==
  LET r == move_to_trash(app.file_manager, tree, file_path, locked) IN
  /\ Len(app.file_manager.errors) < MaxErrors
  /\ app' = [app EXCEPT !.file_manager = r.fm,
                        !.results = <<[key |-> file_path, ok |-> r.ok]>>]
  /\ tree' = r.tree
  /\ UNCHANGED <<rootKind, stop_search, progress_callback, th, reports, prev,
                 after, launched>>

\* FileManager.clear_errors
clear_errors(fm) == [fm EXCEPT !.errors = << >>]

\* FileManager.clear_deleted_files
clear_deleted_files(fm) == [fm EXCEPT !.deleted_files = << >>]

FM_clear_errors ==
  /\ app.file_manager.errors # << >>
  /\ app' = [app EXCEPT !.file_manager = clear_errors(@)]
  /\ UNCHANGED <<rootKind, tree, stop_search, progress_callback, th, reports,
                 prev, after, launched>>

FM_clear_deleted_files ==
  /\ app.file_manager.deleted_files # << >>
  /\ app' = [app EXCEPT !.file_manager = clear_deleted_files(@)]
  /\ UNCHANGED <<rootKind, tree, stop_search, progress_callback, th, reports,
                 prev, after, launched>>

InitFM ==
  /\ rootKind = "dir"
  /\ tree \in FMTrees
  /\ stop_search = FALSE
  /\ progress_callback = "record"
  /\ th = [w \in Threads |-> IdleFrame]
  /\ reports = << >>
  /\ prev = NoPrev
  /\ app = InitApp(Root)
  /\ after = << >>
  /\ launched = 0

NextFM ==
  \/ \E file_paths \in PathLists, locked \in SUBSET {PathA, PathB} :
       FM_move_files_to_trash(file_paths, locked)
  \/ \E file_path \in FMPaths, locked \in SUBSET {PathA, PathB} :
       FM_move_to_trash(file_path, locked)
  \/ FM_clear_errors
  \/ FM_clear_deleted_files

SpecFM == InitFM /\ [][NextFM]_vars

\* ------------------------------------------------------- the application
\* os.path.exists of a path below the root
exists(p) == Present(normalize_path(p))

\* DuplicateFileDeleterApp.clear_results
clear_results(a) ==
  [a EXCEPT !.tree_items = << >>, !.duplicates = << >>,
            !.duplicate_groups = << >>, !.file_selections = << >>,
            !.results_info = <<"No duplicates found yet">>,
            !.progress_bar = <<0, 1>>, !.progress_text = "",
            !.action_buttons = FALSE]

\* DuplicateFileDeleterApp.reset_ui_state
reset_ui_state(a) ==
  [a EXCEPT !.is_searching = FALSE, !.search_button = TRUE,
            !.stop_button = FALSE, !.browse_button = TRUE]

\* The files of a group that get_file_info finds, in the group's order.
Shown(files) == SelectSeq(files, exists)

\* file_path in self.file_selections
Selectable(fs, file_path) == \E j \in 1..Len(fs) : fs[j].key = file_path

\* self.file_selections[file_path] = is_selected, on the dict kept as a
\* sequence of entries in insertion order
SelSet(fs, file_path, is_selected) ==
  IF Selectable(fs, file_path)
  THEN [j \in 1..Len(fs) |->
          IF fs[j].key = file_path THEN [fs[j] EXCEPT !.sel = is_selected]
          ELSE fs[j]]
  ELSE Append(fs, [key |-> file_path, sel |-> is_selected])

\* self.file_selections[file_path]
SelOf(fs, file_path) ==
  LET j == CHOOSE k \in 1..Len(fs) : fs[k].key = file_path IN fs[j].sel

RECURSIVE SelectEach(_, _, _)
\* file_selections[files[k]] = picks[k] for every k, in the order of files
SelectEach(fs, files, picks) ==
  IF files = << >> THEN fs
  ELSE SelectEach(SelSet(fs, Head(files), Head(picks)), Tail(files), Tail(picks))

RECURSIVE Selections(_)
\* file_selections after display_results went through the groups d: every
\* shown file, not selected.
Selections(d) ==
  IF d = << >> THEN << >>
  ELSE LET shown == Shown(d[Len(d)].files) IN
       SelectEach(Selections(SubSeq(d, 1, Len(d) - 1)), shown,
                  [k \in 1..Len(shown) |-> FALSE])

\* DuplicateFileDeleterApp.display_results
display_results(a) ==
  IF a.duplicates = << >>
  THEN [a EXCEPT !.tree_items = << >>, !.file_selections = << >>,
                 !.duplicate_groups = << >>,
                 !.results_info = <<"No duplicates found">>]
  ELSE [a EXCEPT
          !.tree_items = [g \in 1..Len(a.duplicates) |->
                            [hash |-> a.duplicates[g].key,
                             children |-> Shown(a.duplicates[g].files)]],
          !.file_selections = Selections(a.duplicates),
          !.duplicate_groups = [g \in 1..Len(a.duplicates) |->
                                  [hash |-> a.duplicates[g].key,
                                   files |-> a.duplicates[g].files]],
          !.results_info = <<"Found", Len(a.duplicates), SumLen(a.duplicates)>>,
          !.action_buttons = TRUE]

\* The click on "Search for Duplicates": DuplicateFileDeleterApp.start_search.
start_search ==
  LET free == {w \in Threads : th[w].pc \in {"idle", "exited"}}
      new == CHOOSE w \in free : \A v \in free : w <= v IN
  /\ app.search_button
  /\ launched < MaxSearches
  /\ free # {}
  /\ IF app.selected_folder = << >>
     THEN /\ app' = [app EXCEPT !.dialog = "Please select a folder to search."]
          /\ UNCHANGED <<th, launched>>
     ELSE IF rootKind = "missing"
     THEN /\ app' = [app EXCEPT !.dialog = "Selected folder does not exist."]
          /\ UNCHANGED <<th, launched>>
     ELSE /\ app' = [clear_results(app) EXCEPT
                       !.is_searching = TRUE, !.search_button = FALSE,
                       !.stop_button = TRUE, !.browse_button = FALSE,
                       !.search_thread = new]
          /\ launched' = launched + 1
          /\ Frame(new, [IdleFrame EXCEPT !.pc = "call"])
  /\ UNCHANGED <<rootKind, tree, stop_search, progress_callback, reports, prev, after>>

\* The click on "Stop Search": DuplicateFileDeleterApp.stop_search.
stop_search_click ==
  /\ app.stop_button
  /\ stop
  /\ app' = reset_ui_state(
              update_progress([app EXCEPT !.is_searching = FALSE], 0, <<0, 1>>,
                              "Search stopped by user"))
  /\ UNCHANGED <<rootKind, tree, progress_callback, reports, prev, after, launched>>

\* A faulty search_duplicates without the finally clause that queues
\* reset_ui_state.
search_duplicates_return_without_reset(w) ==
  /\ th[w].pc = "done"
  /\ app' = [app EXCEPT !.duplicates = th[w].ret]
  /\ after' = after \o <<"display_results">>
  /\ Frame(w, [IdleFrame EXCEPT !.pc = "exited", !.outcome = th[w].outcome,
                                !.stopAt = th[w].stopAt])
  /\ UNCHANGED <<rootKind, tree, stop_search, progress_callback, reports, prev, launched>>

\* DuplicateFileDeleterApp.search_duplicates once find_duplicates returned
\* (lines 256-266), on the worker thread w.
search_duplicates_return(w) ==
  /\ th[w].pc = "done"
  /\ app' = [app EXCEPT !.duplicates = th[w].ret]
  /\ after' = after \o <<"display_results", "reset_ui_state">>
  /\ Frame(w, [IdleFrame EXCEPT !.pc = "exited", !.outcome = th[w].outcome,
                                !.stopAt = th[w].stopAt])
  /\ UNCHANGED <<rootKind, tree, stop_search, progress_callback, reports, prev, launched>>

\* Tk's main loop runs the oldest root.after(0, ...) callback.
run_after ==
  /\ after # << >>
  /\ after' = Tail(after)
  /\ app' = IF Head(after) = "display_results" THEN display_results(app)
            ELSE reset_ui_state(app)
  /\ UNCHANGED <<rootKind, tree, stop_search, progress_callback, th, reports, prev,
                 launched>>

\* The click on a file row: on_item_click on child k of group item g.
on_item_click_file(g, k) ==
  LET file_path == app.tree_items[g].children[k] IN
  /\ Selectable(app.file_selections, file_path)
  /\ app' = [app EXCEPT !.file_selections =
                          SelSet(@, file_path, ~SelOf(@, file_path))]
  /\ UNCHANGED <<rootKind, tree, stop_search, progress_callback, th, reports,
                 prev, after, launched>>

\* The click on a group row: on_item_click, toggle_group_selection.
toggle_group_selection(g) ==
  LET children == app.tree_items[g].children
      fs == app.file_selections
      any_selected == \E k \in 1..Len(children) :
                        Selectable(fs, children[k]) /\ SelOf(fs, children[k])
      picks == [k \in 1..Len(children) |->
                  IF any_selected THEN FALSE ELSE k > 1]
      RECURSIVE Each(_, _)
      Each(acc, k) ==
        IF k > Len(children) THEN acc
        ELSE Each(IF Selectable(acc, children[k])
                  THEN SelSet(acc, children[k], picks[k]) ELSE acc, k + 1)
  IN /\ children # << >>
     /\ app' = [app EXCEPT !.file_selections = Each(fs, 1)]
     /\ UNCHANGED <<rootKind, tree, stop_search, progress_callback, th, reports,
                    prev, after, launched>>

\* The button "Select All": select_all.
select_all ==
  /\ app.action_buttons
  /\ app' = [app EXCEPT !.file_selections =
                          [j \in 1..Len(@) |-> [@[j] EXCEPT !.sel = TRUE]]]
  /\ UNCHANGED <<rootKind, tree, stop_search, progress_callback, th, reports,
                 prev, after, launched>>

\* The button "Deselect All": deselect_all.
deselect_all ==
  /\ app.action_buttons
  /\ app' = [app EXCEPT !.file_selections =
                          [j \in 1..Len(@) |-> [@[j] EXCEPT !.sel = FALSE]]]
  /\ UNCHANGED <<rootKind, tree, stop_search, progress_callback, th, reports,
                 prev, after, launched>>

RECURSIVE AutoSelected(_, _)
\* file_selections once auto_select went through the groups.
AutoSelected(fs, groups) ==
  IF groups = << >> THEN fs
  ELSE LET files == Head(groups).files IN
       AutoSelected(SelectEach(fs, files, [k \in 1..Len(files) |-> k > 1]),
                    Tail(groups))

\* The button "Auto Select (Keep First)": auto_select.
auto_select ==
  /\ app.action_buttons
  /\ app' = [app EXCEPT !.file_selections = AutoSelected(@, app.duplicate_groups)]
  /\ UNCHANGED <<rootKind, tree, stop_search, progress_callback, th, reports,
                 prev, after, launched>>

\* [path for path, is_selected in self.file_selections.items() if is_selected]
files_to_delete(fs) ==
  LET chosen == SelectSeq(fs, LAMBDA e : e.sel) IN
  [j \in 1..Len(chosen) |-> chosen[j].key]

\* DuplicateFileDeleterApp.remove_deleted_files_from_display
remove_deleted_files_from_display(a, deleted_files) ==
  LET Keep(item) ==
        [item EXCEPT !.children =
                       SelectSeq(@, LAMBDA p : p \notin Range(deleted_files))]
      items == [g \in 1..Len(a.tree_items) |-> Keep(a.tree_items[g])]
  IN [a EXCEPT
        !.tree_items = SelectSeq(items, LAMBDA item : item.children # << >>),
        !.file_selections =
           SelectSeq(@, LAMBDA e : e.key \notin Range(deleted_files))]

\* The button "Delete Selected": delete_selected. confirm is the answer to
\* the confirmation dialog, locked the files send2trash fails on.
delete_selected(confirm, locked) ==
  LET chosen == files_to_delete(app.file_selections)
      r == move_files_to_trash(clear_errors(app.file_manager), tree, chosen,
                               locked, << >>)
      error_count == Cardinality({j \in 1..Len(r.results) : ~r.results[j].ok})
  IN /\ app.action_buttons
     /\ IF chosen = << >>
        THEN /\ app' = [app EXCEPT !.dialog = "No Files Selected"]
             /\ UNCHANGED tree
        ELSE IF ~confirm
        THEN /\ app' = [app EXCEPT !.dialog = "Confirm Deletion"]
             /\ UNCHANGED tree
        ELSE /\ app' = remove_deleted_files_from_display(
                         [app EXCEPT !.file_manager = r.fm, !.results = r.results,
                                     !.dialog = IF error_count = 0 THEN "Success"
                                                ELSE "Partial Success"],
                         chosen)
             /\ tree' = r.tree
     /\ UNCHANGED <<rootKind, stop_search, progress_callback, th, reports, prev,
                    after, launched>>

\* The button "Clear Results": clear_results.
clear_results_click ==
  /\ app.action_buttons
  /\ app' = clear_results(app)
  /\ UNCHANGED <<rootKind, tree, stop_search, progress_callback, th, reports,
                 prev, after, launched>>

\* The trees whose results the user works on.
ResultTrees ==
  {[NoTree EXCEPT ![PathA] = File(<<1>>, "ok"), ![PathB] = File(<<1>>, "ok"),
                  ![PathC] = File(<<1>>, "ok")],
   [NoTree EXCEPT ![PathA] = File(<<1>>, "ok"), ![PathL] = Link(PathA)],
   [NoTree EXCEPT ![PathA] = File(<< >>, "ok"), ![PathB] = File(<<1>>, "ok"),
                  ![PathC] = File(<< >>, "ok"), ![PathD] = File(<<1>>, "ok")]}

\* The application with the user searching, selecting and deleting, and
\* leaving the "Stop Search" button alone.
InitResults ==
  /\ rootKind = "dir"
  /\ tree \in ResultTrees
  /\ stop_search = FALSE
  /\ progress_callback = "update_progress"
  /\ th = [w \in Threads |-> IdleFrame]
  /\ reports = << >>
  /\ prev = NoPrev
  /\ app = InitApp(Root)
  /\ after = << >>
  /\ launched = 0

NextResults ==
  \/ start_search
  \/ \E w \in Threads : Scan(w)
  \/ \E w \in Threads : search_duplicates_return(w)
  \/ run_after
  \/ \E g \in 1..Len(app.tree_items) :
       \E k \in 1..Len(app.tree_items[g].children) : on_item_click_file(g, k)
  \/ \E g \in 1..Len(app.tree_items) : toggle_group_selection(g)
  \/ select_all
  \/ deselect_all
  \/ auto_select
  \/ \E confirm \in BOOLEAN, locked \in SUBSET {PathB} :
       delete_selected(confirm, locked)
  \/ clear_results_click

SpecResults == InitResults /\ [][NextResults]_vars

Text(c) == File(c, "ok")

\* The trees the application is run on.
AppTrees ==
  {[NoTree EXCEPT ![PathA] = Text(<<1>>), ![PathB] = Text(<<1>>)],
   [NoTree EXCEPT ![PathA] = Text(<<1>>), ![PathB] = Text(<<1>>),
                  ![PathC] = Text(<<1>>)],
   [NoTree EXCEPT ![PathA] = Text(<<1>>), ![PathB] = Text(<<2>>)]}

InitUI ==
  /\ rootKind \in {"dir", "file", "missing"}
  /\ tree \in IF rootKind = "dir" THEN AppTrees ELSE {NoTree}
  /\ stop_search = FALSE
  /\ progress_callback = "update_progress"
  /\ th = [w \in Threads |-> IdleFrame]
  /\ reports = << >>
  /\ prev = NoPrev
  /\ app \in {InitApp(folder) : folder \in {<< >>, Root}}
  /\ after = << >>
  /\ launched = 0

NextUI ==
  \/ start_search
  \/ stop_search_click
  \/ \E w \in Threads : Scan(w)
  \/ \E w \in Threads : search_duplicates_return(w)
  \/ run_after

SpecApp == InitUI /\ [][NextUI]_vars

\* The application with its threads and its main loop running: a worker at
\* the end of find_duplicates goes on, and Tk runs the callbacks it holds.
SpecAppLive ==
  /\ InitUI /\ [][NextUI]_vars
  /\ \A w \in Threads : WF_vars(search_duplicates_return(w))
  /\ WF_vars(run_after)

\* ================================================================ claims
Me == th[Caller]

Regular(p) == tree[p].kind = "file"
Readable(p) == Regular(p) /\ tree[p].acc = "ok"
Content(p) == tree[p].content

\* Some entry of the dict d lists both p and q.
SameGroup(d, p, q) ==
  \E j \in 1..Len(d) : p \in Range(d[j].files) /\ q \in Range(d[j].files)

\* Every path some entry of the dict d lists.
Members(d) == UNION {Range(d[j].files) : j \in 1..Len(d)}

\* The scan of the caller has returned and stop() was not called during it.
Uncancelled == Me.pc = "done" /\ Me.outcome = "completed" /\ Me.stopAt = "none"

\* C1: two distinct non-hidden, readable regular files with the same bytes are
\* members of one group of the mapping an uncancelled find_duplicates returns.
C1_IdenticalFilesShareAGroup ==
  Uncancelled =>
    \A p, q \in Slots :
      (/\ p # q /\ Readable(p) /\ Readable(q)
       /\ ~is_hidden_file(p) /\ ~is_hidden_file(q)
       /\ Content(p) = Content(q))
      => SameGroup(Me.ret, p, q)

\* C1 witness: a scan returned with r/a and r/sub/c, equal in content, in one group.
C1_Witness ==
  /\ Uncancelled
  /\ Readable(PathA) /\ Present(PathC) /\ Content(PathA) = Content(PathC)
  /\ SameGroup(Me.ret, PathA, PathC)

\* C2: two files of the same size and different content share a size bucket in
\* what group_by_size returns, and no digest group ever lists both.
C2_SameSizeDifferentContent ==
  LET SameSizeOnly(p, q) ==
        /\ Regular(p) /\ Regular(q)
        /\ Len(Content(p)) = Len(Content(q)) /\ Content(p) # Content(q)
  IN /\ (Me.pc = "afterSize" /\ Me.stopAt = "none") =>
          \A p, q \in Range(Me.files) :
            (/\ SameSizeOnly(p, q)
             /\ get_file_size(p) # NoSize /\ get_file_size(q) # NoSize)
            => SameGroup(Me.size_groups, p, q)
     /\ \A j \in 1..Len(Me.duplicates) :
          \A p, q \in Range(Me.duplicates[j].files) : ~SameSizeOnly(p, q)
     /\ \A j \in 1..Len(Me.ret) :
          \A p, q \in Range(Me.ret[j].files) : ~SameSizeOnly(p, q)

\* C2 witness: a finished scan that hashed r/a and r/b, of one size bucket and
\* of different content, and returned a group without r/b.
C2_Witness ==
  /\ Uncancelled
  /\ Readable(PathA) /\ Readable(PathB)
  /\ Len(Content(PathA)) = Len(Content(PathB)) /\ Content(PathA) # Content(PathB)
  /\ SameGroup(Me.size_groups, PathA, PathB)
  /\ PathA \in Range(Me.hashed) /\ PathB \in Range(Me.hashed)
  /\ PathA \in Members(Me.ret) /\ PathB \notin Members(Me.ret)

\* C3: a find_duplicates that stop() reached in its hashing stage returns the
\* empty mapping of the stopped outcome, never a map of the files hashed so far.
C3_StopWhileHashingReturnsEmpty ==
  (Me.pc = "done" /\ Me.stopAt = "hash") => Me.ret = << >>

\* C4: with a root that is missing or no directory no scan completes: no
\* frame of find_duplicates reaches the completed outcome.
C4_InvalidRootNeverCompletes ==
  rootKind # "dir" => \A w \in Threads : th[w].outcome # "completed"

\* A path below a directory whose name starts with a dot.
UnderHiddenDir(p) == \E k \in 1..(Len(p) - 1) : StartsWithDot(p[k])

\* C5: no file below a hidden directory is in the mapping find_duplicates
\* returns.
C5_NothingBelowHiddenDir ==
  \A p \in Members(Me.ret) : ~UnderHiddenDir(p)

\* C6: no path whose base name starts with a dot is in any group, whatever
\* its content: not in the enumerated files, the size buckets, the digest
\* groups or the returned mapping.
C6_NoHiddenBaseName ==
  /\ \A j \in 1..Len(Me.files) : ~StartsWithDot(basename(Me.files[j]))
  /\ \A p \in Members(Me.size_groups) \cup Members(Me.duplicates)
               \cup Members(Me.ret) :
       ~StartsWithDot(basename(p))

\* C6 witness: a scan returned a group with r/a while r/.h holds the same bytes.
C6_Witness ==
  /\ Uncancelled
  /\ Present(PathH) /\ Content(PathH) = Content(PathA)
  /\ PathA \in Members(Me.ret)

\* C7: what the caller holds after a cancelled scan of a directory (the
\* returned mapping and the detector's stop flag) differs from what it holds
\* after a scan that completed without duplicates.
C7_StoppedDiffersFromNoDuplicates ==
  (/\ rootKind = "dir"
   /\ prev.outcome = "stopped"
   /\ Me.pc = "done" /\ Me.outcome = "completed" /\ Me.ret = << >>)
  => <<prev.ret, prev.stop_search>> # <<Me.ret, stop_search>>

\* Thread w is inside find_duplicates.
InScan(w) == th[w].pc \notin {"idle", "call", "done", "exited"}

\* C8: at most one worker thread is inside find_duplicates at any time.
C8_OneScanInFlight ==
  Cardinality({w \in Threads : InScan(w)}) <= 1

\* C9: a scan of a directory during which stop() was called before its hashing
\* stage, be it before the worker's first statement, ends stopped.
C9_StopIsObserved ==
  \A w \in Threads :
    (/\ rootKind = "dir"
     /\ th[w].pc \in {"done", "exited"}
     /\ th[w].stopAt \in {"call", "walk", "size"})
    => th[w].outcome = "stopped"

\* C10: in a scan that follows a stopped one, as long as stop() is not called
\* again the flag stays reset, and the scan ends completed.
C10_NoResidualCancellation ==
  (prev.outcome = "stopped" /\ Me.stopAt = "none")
  => /\ Me.pc \notin {"idle", "call", "done"} => ~stop_search
     /\ Me.pc = "done" => Me.outcome = "completed"

\* C10 witness: the scan after a stopped one returned a group, unstopped.
C10_Witness ==
  /\ prev.outcome = "stopped" /\ prev.stop_search
  /\ Uncancelled
  /\ Me.ret # << >>

\* C11: the progress bar and the progress text are written by the main loop
\* (thread 0) only, never by a thread that runs find_duplicates.
C11_ProgressOnMainLoopOnly == app.progress_by = 0

\* a/b <= c/d for fractions with positive denominators
Le(x, y) == x[1] * y[2] <= y[1] * x[2]

\* C12: in a scan during which stop() is not called the percentages reported
\* never decrease; the first is 0 and, once the scan has returned, the last
\* is 100.
C12_PercentNeverDecreases ==
  Me.stopAt = "none" =>
    /\ \A j \in 1..(Len(reports) - 1) : Le(reports[j].pct, reports[j + 1].pct)
    /\ reports # << >> => reports[1].pct[1] = 0
    /\ Uncancelled =>
         /\ reports # << >>
         /\ reports[Len(reports)].pct[1] = 100 * reports[Len(reports)].pct[2]

\* C12 witness: a scan returned unstopped after reports of all three stages.
C12_Witness ==
  /\ Uncancelled
  /\ \E j, k, l \in 1..Len(reports) :
       /\ reports[j].stage = "walk" /\ reports[k].stage = "size"
       /\ reports[l].stage = "hash"
  /\ Len(reports) >= 8

\* The reports of a stage so far.
Count(stage) == Cardinality({j \in 1..Len(reports) : reports[j].stage = stage})

\* lo <= x <= hi for a fraction x
Within(x, lo, hi) == lo * x[2] <= x[1] /\ x[1] <= hi * x[2]

\* C13: every report is within the range of its stage (enumeration 0..30,
\* sizes 30..60, hashing 60..100, hence all within 0..100), with one report
\* for each file the size stage went through and one for each file hashed.
C13_ReportsWithinStageRange ==
  /\ \A j \in 1..Len(reports) :
       LET r == reports[j] IN
       /\ r.stage = "walk" => Within(r.pct, 0, 30)
       /\ r.stage = "size" => Within(r.pct, 30, 60)
       /\ r.stage = "hash" => Within(r.pct, 60, 100)
       /\ Within(r.pct, 0, 100)
  /\ Count("size") = Me.i
  /\ Count("hash") = Len(Me.hashed)
  /\ Count("hash") = Me.processed_files

\* C13 witness: a scan that sized four files and hashed three of them.
C13_Witness ==
  /\ Me.pc = "done"
  /\ Count("size") = 4 /\ Count("hash") = 3

\* The groups of the files the enumeration found, less those whose size
\* query or read fails: per content the files holding it, in the order of
\* the enumeration, where there are two at least.
GroupsOfReadable ==
  LET good == SelectSeq(Me.files, Readable)
      Of(c) == SelectSeq(good, LAMBDA q : Content(q) = c)
  IN {Of(c) : c \in {x \in Contents : Len(Of(x)) >= 2}}

\* C14: a scan during which stop() is not called completes also when a size
\* query or a read fails; no failing file is in a group, and the groups are
\* those of the other files, as if the failing file were not there.
C14_FailingFileIsLeftOut ==
  (Me.pc = "done" /\ Me.stopAt = "none") =>
    /\ Me.outcome = "completed"
    /\ \A p \in Members(Me.ret) : Readable(p)
    /\ {Me.ret[j].files : j \in 1..Len(Me.ret)} = GroupsOfReadable

\* C14 witness: r/b cannot be read, was handed to calculate_md5, and the scan
\* returned the group of r/a and r/sub/c, which hold the bytes of r/b.
C14_Witness ==
  /\ Uncancelled
  /\ Regular(PathB) /\ tree[PathB].acc = "noread"
  /\ Content(PathB) = Content(PathA)
  /\ PathB \in Range(Me.hashed)
  /\ \E j \in 1..Len(Me.ret) : Me.ret[j].files = <<PathA, PathC>>

\* C15: every list of the mapping find_duplicates returns, and of the mapping
\* find_duplicates_by_hash returned, stopped or not, has two entries at least.
C15_GroupsHaveTwoEntries ==
  /\ \A j \in 1..Len(Me.ret) : Len(Me.ret[j].files) >= 2
  /\ Me.pc = "done" =>
       \A j \in 1..Len(Me.duplicates) : Len(Me.duplicates[j].files) >= 2

\* C15 witness: a scan returned a group after hashing more readable files
\* than it returned: a digest list of one file was dropped.
C15_Witness ==
  /\ Me.pc = "done" /\ Me.ret # << >>
  /\ \A p \in Range(Me.hashed) : Readable(p)
  /\ Len(Me.hashed) > SumLen(Me.ret)

\* C16: calculate_md5 is called only on a file whose size another enumerated
\* file has.
C16_HashedOnlyWithSizePeer ==
  \A p \in Range(Me.hashed) :
    \E q \in Range(Me.files) : q # p /\ get_file_size(q) = get_file_size(p)

\* C17: two scans of the same tree, stop() called during neither, return the
\* same mapping: the same groups, the same files in the same order.
C17_TwoRunsSameGroups ==
  (prev.outcome = "completed" /\ prev.stopAt = "none" /\ Uncancelled)
  => Me.ret = prev.ret

\* C17 witness: the second of two unstopped scans returned two groups, stop()
\* having been called between the two.
C17_Witness ==
  /\ prev.outcome = "completed" /\ prev.stopAt = "none" /\ prev.stop_search
  /\ Uncancelled
  /\ Len(Me.ret) >= 2

\* The files of the list g are in the order the sequence files has them.
InOrderOf(g, files) ==
  \A a, b \in 1..Len(g) :
    a < b => \E x, y \in 1..Len(files) :
               x < y /\ files[x] = g[a] /\ files[y] = g[b]

\* C18: the files of every size bucket, of every digest group and of every
\* returned group are in the order get_all_files found them.
C18_GroupsInEnumerationOrder ==
  /\ \A j \in 1..Len(Me.size_groups) : InOrderOf(Me.size_groups[j].files, Me.files)
  /\ \A j \in 1..Len(Me.duplicates) : InOrderOf(Me.duplicates[j].files, Me.files)
  /\ \A j \in 1..Len(Me.ret) : InOrderOf(Me.ret[j].files, Me.files)

\* C18 witness: a scan returned r/a, r/b, r/sub/c and r/.git/d as one group,
\* in the order of the walk.
C18_Witness ==
  /\ Uncancelled
  /\ \E j \in 1..Len(Me.ret) : Me.ret[j].files = <<PathA, PathB, PathC, PathD>>

Empty(p) == Readable(p) /\ Content(p) = << >>

\* C19: an unstopped scan puts all the non-hidden empty files in one group,
\* lists no empty file with a non-empty one, and returns no group when it
\* found just one empty and one non-empty file.
C19_EmptyFilesGroupTogether ==
  Uncancelled =>
    /\ \A p, q \in Slots :
         (p # q /\ Empty(p) /\ Empty(q) /\ ~is_hidden_file(p) /\ ~is_hidden_file(q))
         => SameGroup(Me.ret, p, q)
    /\ \A j \in 1..Len(Me.ret) :
         \A p, q \in Range(Me.ret[j].files) :
           (Content(p) = << >>) <=> (Content(q) = << >>)
    /\ (/\ Len(Me.files) = 2
        /\ \E x, y \in 1..2 : /\ Content(Me.files[x]) = << >>
                              /\ Content(Me.files[y]) # << >>)
       => Me.ret = << >>

\* C19 witness: r/a and r/sub/c are empty, r/b is not, and the scan returned
\* the one group of r/a and r/sub/c.
C19_Witness ==
  /\ Uncancelled
  /\ Empty(PathA) /\ Present(PathC) /\ Empty(PathC)
  /\ Readable(PathB) /\ Content(PathB) # << >>
  /\ Me.ret = <<[key |-> MD5(<< >>), files |-> <<PathA, PathC>>]>>

\* C20: every file of a returned group has the content of another enumerated
\* file, and there are as many groups as contents that two readable
\* enumerated files at least hold.
C20_UniqueContentInNoGroup ==
  Uncancelled =>
    /\ \A p \in Members(Me.ret) :
         \E q \in Range(Me.files) : q # p /\ Content(q) = Content(p)
    /\ Len(Me.ret) =
         Cardinality({c \in Contents :
            Cardinality({p \in Range(Me.files) :
                           Readable(p) /\ Content(p) = c}) >= 2})

\* C21: when stop() is called while the scan enumerates or sizes, no file is
\* handed to calculate_md5, the hashing stage is not entered, and the scan
\* returns the empty mapping of the stopped outcome.
C21_StopBeforeHashingDiscards ==
  Me.stopAt \in {"walk", "size"} =>
    /\ Me.hashed = << >>
    /\ Me.pc \notin {"hash", "hashFiles", "afterHash"}
    /\ Me.pc = "done" => (Me.ret = << >> /\ Me.outcome = "stopped")

\* C21 witness: a scan stopped while sizing had bucketed two files already
\* and has returned the empty mapping.
C21_Witness ==
  /\ Me.pc = "done" /\ Me.stopAt = "size"
  /\ Me.size_groups # << >>
  /\ Me.ret = << >> /\ Me.outcome = "stopped"

\* The frame of the caller after the step.
MeNext == th'[Caller]

\* C22: once stop() was called during a stage of the scan, no step of the scan
\* appends, sizes or hashes a file any more, and no later stage begins: the
\* frame stays in its stage until it leaves for the end of the scan.
C22_NoWorkAfterStop ==
  [][(/\ stop_search
      /\ Me.stopAt \in {"walk", "size", "hash"}
      /\ Me.pc \notin {"done", "afterHash"})
     => /\ MeNext.files = Me.files
        /\ MeNext.i = Me.i
        /\ MeNext.size_groups = Me.size_groups
             \/ MeNext.size_groups = OnlyMultiple(Me.size_groups)
        /\ MeNext.hashed = Me.hashed
        /\ Stage(MeNext.pc) \in {Stage(Me.pc), "afterHash", "done"}
        /\ MeNext.pc = "afterHash" => Stage(Me.pc) = "hash"]_vars

\* C22 witness: a scan stopped during the walk has returned with r/a alone in
\* its file list, while r/b is a regular file as well.
C22_Witness ==
  /\ Me.pc = "done" /\ Me.stopAt = "walk"
  /\ Me.files = <<PathA>>
  /\ Readable(PathB)

\* A frame without the note of the stage stop() was called in.
Locals(f) == [f EXCEPT !.stopAt = "none"]

\* C23: stop() sets stop_search and changes nothing else: not the callback,
\* not the files, not the locals of a running scan; called with the flag set
\* it changes nothing at all.
C23_StopIsIdempotent ==
  [][stop
     => /\ stop_search'
        /\ progress_callback' = progress_callback
        /\ tree' = tree /\ rootKind' = rootKind
        /\ \A w \in Threads : Locals(th'[w]) = Locals(th[w])
        /\ stop_search => stop_search' = stop_search]_vars

\* C23 witness: stop() was called during the sizing of a scan that is still
\* in that stage, where it can be called again.
C23_Witness ==
  /\ stop_search
  /\ Me.pc = "size" /\ Me.stopAt = "size"

\* The place of a frame's position in the course of find_duplicates.
Rank(pc) ==
  CASE Stage(pc) = "idle" -> 0
    [] Stage(pc) = "call" -> 1
    [] Stage(pc) = "walk" -> 2
    [] Stage(pc) = "size" -> 3
    [] Stage(pc) = "hash" -> 4
    [] Stage(pc) = "afterHash" -> 5
    [] OTHER -> 6

\* C24: every call of find_duplicates returns, stopped or not; the scan goes
\* through enumeration, sizing and hashing in that order and never back; a
\* stage works on the finished output of the stage before; and a scan that
\* was not stopped ends with the report of 100.
C24_ScanTerminates ==
  /\ (Me.pc = "call") ~> (Me.pc = "done")
  /\ [][/\ Rank(MeNext.pc) >= Rank(Me.pc) \/ MeNext.pc = "call"
        /\ Rank(Me.pc) \in {3, 4, 5} => MeNext.files = Me.files
        /\ Rank(Me.pc) \in {4, 5} => MeNext.size_groups = Me.size_groups]_vars
  /\ [](Uncancelled =>
          /\ reports # << >>
          /\ reports[Len(reports)] = [pct |-> <<100, 1>>, stage |-> "found"])

\* C24 witness: a scan that was not stopped went through the three stages
\* and has returned.
C24_Witness ==
  /\ Uncancelled
  /\ Count("walk") >= 2 /\ Count("size") >= 3 /\ Count("hash") >= 3

\* The value the dict results holds for key.
ResultOf(results, key) ==
  LET j == CHOOSE k \in 1..Len(results) : results[k].key = key IN results[j].ok

\* C25: the mapping move_files_to_trash returns has an entry for every path
\* it was given, true exactly for the paths whose file this call moved to
\* the trash: the file was there before the call and is gone after it.
C25_ResultPerPath ==
  [][\A file_paths \in PathLists, locked \in SUBSET {PathA, PathB} :
       FM_move_files_to_trash(file_paths, locked) =>
         \A p \in Range(file_paths) :
           /\ \E j \in 1..Len(app'.results) : app'.results[j].key = p
           /\ ResultOf(app'.results, p)
                <=> (/\ fm_isfile(tree, fm_normalize_path(tree, p))
                     /\ ~fm_exists(tree', fm_normalize_path(tree, p)))]_vars

\* C26: no step of find_duplicates, and no call of stop(), changes the root
\* or the files below it: their paths, kinds and contents stay as they are.
C26_DetectorLeavesTreeAlone ==
  [][tree' = tree /\ rootKind' = rootKind]_vars

\* C26 witness: a scan stopped while hashing has returned after it had sized
\* three files and read two of them.
C26_Witness ==
  /\ Me.pc = "done" /\ Me.stopAt = "hash"
  /\ Me.i >= 3 /\ Len(Me.hashed) >= 2
  /\ Regular(PathA) /\ Regular(PathB)

\* C27: the progress display never shows the completion report of a worker
\* whose scan the user stopped: after "Search stopped by user" that worker's
\* 100% "Found N duplicate groups" does not follow.
C27_StoppedMessageIsLast ==
  \A w \in Threads :
    (rootKind = "dir" /\ th[w].stopAt # "none") =>
      ~(app.progress_by = w /\ app.progress_text = "found")

\* The positions of the list files.
Places(files) == 1..Len(files)

\* C28: a click on "Auto Select" leaves the first file of every duplicate
\* group unselected and every other file of the group selected.
C28_AutoSelectKeepsFirst ==
  [][auto_select =>
       \A g \in 1..Len(app.duplicate_groups) :
         LET files == app.duplicate_groups[g].files IN
         \A k \in Places(files) :
           /\ Selectable(app'.file_selections, files[k])
           /\ SelOf(app'.file_selections, files[k]) <=> k > 1]_vars

\* No path is twice in the list.
NoRepeat(files) ==
  \A j, k \in Places(files) : files[j] = files[k] => j = k

\* C29: after a click on "Auto Select" every displayed group (of pairwise
\* different paths) has a file that is still on disk and is not selected.
C29_AutoSelectLeavesACopy ==
  [][auto_select =>
       \A g \in 1..Len(app'.tree_items) :
         LET children == app'.tree_items[g].children IN
         NoRepeat(children) =>
           \E k \in Places(children) :
             /\ fm_exists(tree', children[k])
             /\ Selectable(app'.file_selections, children[k])
             /\ ~SelOf(app'.file_selections, children[k])]_vars

\* The rows of the result tree show the path p.
Displayed(a, p) ==
  \E g \in 1..Len(a.tree_items) : p \in Range(a.tree_items[g].children)

\* C30: a confirmed "Delete Selected" takes from the selection map and from
\* the displayed groups exactly the files it moved to the trash; a selected
\* file whose move failed stays in both.
C30_OnlyTrashedFilesLeaveDisplay ==
  [][\A locked \in SUBSET {PathB} :
       (delete_selected(TRUE, locked) /\ files_to_delete(app.file_selections) # << >>)
       => \A j \in 1..Len(app.file_selections) :
            LET p == app.file_selections[j].key
                moved == fm_isfile(tree, p) /\ ~fm_exists(tree', p)
            IN Displayed(app, p) =>
                 /\ Selectable(app'.file_selections, p) <=> ~moved
                 /\ Displayed(app', p) <=> ~moved]_vars

\* C31: a worker stores what find_duplicates returned in self.duplicates only
\* while it is the worker of the search started last.
C31_OnlyLatestSearchStores ==
  [][\A w \in Threads : search_duplicates_return(w) => w = app.search_thread]_vars

\* C32: the paths of a returned mapping are pairwise different: none is twice
\* in a group, none is in two groups.
C32_MembersArePairwiseDistinct ==
  /\ \A j \in 1..Len(Me.ret) : NoRepeat(Me.ret[j].files)
  /\ \A j, k \in 1..Len(Me.ret) :
       j # k => Range(Me.ret[j].files) \cap Range(Me.ret[k].files) = {}

\* Search and browse enabled, stop disabled, is_searching false.
IdleUI ==
  /\ app.search_button /\ app.browse_button
  /\ ~app.stop_button /\ ~app.is_searching

FMNow == app.file_manager
FMNext == app'.file_manager

\* C34: a move_to_trash that returns true appends the normalized path to
\* deleted_files and moves the file, one that returns false adds one entry
\* to errors and moves nothing, and it returns false for a path that is not
\* there or is no regular file; move_files_to_trash does so for each of its
\* paths; the two clear methods empty their list and leave the other; the
\* files in deleted_files are gone from the tree.
C34_LogsMatchReturns ==
  /\ [][/\ \A p \in FMPaths, locked \in SUBSET {PathA, PathB} :
             FM_move_to_trash(p, locked) =>
               LET n == fm_normalize_path(tree, p)
                   ok == app'.results[1].ok
               IN /\ ok => /\ FMNext.deleted_files = Append(FMNow.deleted_files, n)
                           /\ FMNext.errors = FMNow.errors
                           /\ fm_isfile(tree, n) /\ ~fm_exists(tree', n)
                  /\ ~ok => /\ FMNext.deleted_files = FMNow.deleted_files
                            /\ Len(FMNext.errors) = Len(FMNow.errors) + 1
                            /\ tree' = tree
                  /\ ~fm_isfile(tree, n) => ~ok
        /\ \A file_paths \in PathLists, locked \in SUBSET {PathA, PathB} :
             FM_move_files_to_trash(file_paths, locked) =>
               LET gone == {q \in Slots : fm_exists(tree, q) /\ ~fm_exists(tree', q)}
                   old == Len(FMNow.deleted_files)
                   new == Len(FMNext.deleted_files)
               IN /\ SubSeq(FMNext.deleted_files, 1, old) = FMNow.deleted_files
                  /\ {FMNext.deleted_files[j] : j \in (old + 1)..new} = gone
                  /\ new - old = Cardinality(gone)
                  /\ (new - old) + (Len(FMNext.errors) - Len(FMNow.errors))
                       = Len(file_paths)
        /\ FM_clear_errors =>
             FMNext.errors = << >> /\ FMNext.deleted_files = FMNow.deleted_files
        /\ FM_clear_deleted_files =>
             FMNext.deleted_files = << >> /\ FMNext.errors = FMNow.errors]_vars
  /\ [](\A j \in 1..Len(FMNow.deleted_files) :
          ~fm_exists(tree, FMNow.deleted_files[j]))

\* C34 witness: r/a is in deleted_files and gone, and two moves have failed
\* since errors was cleared.
C34_Witness ==
  /\ FMNow.deleted_files = <<PathA>>
  /\ Len(FMNow.errors) >= 2
  /\ ~fm_exists(tree, PathA)

\* C35: every percentage reported was computed with a divisor greater than
\* 0, whatever the root holds or is.
C35_NoDivisionByZero ==
  \A j \in 1..Len(reports) : reports[j].pct[2] > 0

\* C35 witness: the scans of a directory without files, and of a directory
\* whose files share no size, have completed with their reports.
C35_Witness ==
  /\ Uncancelled /\ rootKind = "dir"
  /\ prev.outcome = "completed"
  /\ Me.size_groups = << >>
  /\ Len(reports) >= 3
  /\ (Me.files = << >> \/ Len(Me.files) = 2)

====
